---------------------------- MODULE Spec2Model ----------------------------
(***************************************************************************)
(* A model of sds011MQTT.py (Python 2, pyserial, paho-mqtt): the SDS011     *)
(* serial command layer (construct_command, read_response, the cmd_*       *)
(* functions, process_data) and the sampling loop of __main__.             *)
(*                                                                         *)
(* A Python 2 str is modelled as the sequence of its byte values (0..255); *)
(* chr(x) is the byte x.  A float raw/10.0 is modelled by the pair of its  *)
(* integer part and its tenths digit.                                      *)
(***************************************************************************)
EXTENDS Integers, Sequences, FiniteSets, TLC

VARIABLES
    cc_in,       \* arguments of the construct_command call under way
    cc_out,      \* what that call gave: a frame, or the exception it raised
    cc_default,  \* the list object bound to the default argument data=[]
    cc_n,        \* history: construct_command calls made so far
    cc_nd,       \* history: those of them that passed no data
    pc,          \* the statement of __main__ being executed
    cmd_pc,      \* the position inside the cmd_* function it called
    id,          \* the argument of cmd_set_id (0 when it is not called)
    t,           \* the loop variable of line 140
    byte,        \* read_response's local byte (<<>>: the int 0 of line 68)
    d,           \* the frame read_response returned to the command (<<>>: none)
    v,           \* what cmd_query_data last returned (<<>>: the empty list)
    values,      \* the sampling loop's values (<<>>: None)
    jsonfile,    \* pm25, pm10 of the row in JSON_FILE (<<>>: no file written)
    mqtt_msg,    \* pm25, pm10 of the last message given to the MQTT client
    printed,     \* the last line printed on standard output
    exc,         \* the uncaught exception that ended the program ("None": running)
    written,     \* the last command frame given to ser.write
    stream,      \* the serial input: bytes received and not yet read
    rr_seen,     \* history: the input offered to the read_response call under way
    junk,        \* stray chunks the sensor has sent since the last frame was read
    fault,       \* history: the serial call that failed ("none", "read", "write")
    outstanding, \* history: command frames written minus response frames read
    last_sleep_cmd, \* history: the last CMD_SLEEP frame written ("none", "wake", "sleep")
    round_last,  \* history: the last sample a query of this round returned
    round_out    \* history: what this round has written to the file and to MQTT

ccvars == <<cc_in, cc_out, cc_default, cc_n, cc_nd>>
progvars == <<pc, cmd_pc, id, t, byte, d, v, values, jsonfile, mqtt_msg, printed,
              exc, written>>
servars == <<stream, rr_seen, junk, fault>>
histvars == <<outstanding, last_sleep_cmd, round_last, round_out>>
vars == <<cc_in, cc_out, cc_default, cc_n, cc_nd, pc, cmd_pc, id, t, byte, d, v,
          values, jsonfile, mqtt_msg, printed, exc, written, stream, rr_seen, junk,
          fault, outstanding, last_sleep_cmd, round_last, round_out>>

None == "None"

-----------------------------------------------------------------------------
(* Program constants, lines 16-25.                                         *)

DEBUG == 0
CMD_MODE == 2
CMD_QUERY_DATA == 4
CMD_DEVICE_ID == 5
CMD_SLEEP == 6
CMD_FIRMWARE == 7
CMD_WORKING_PERIOD == 8
MODE_ACTIVE == 0
MODE_QUERY == 1
PERIOD_CONTINUOUS == 0

PAYLOAD_LEN == 12     \* the 12 of lines 46-47
BYTE_MOD == 256       \* the 256 of line 48
CHECKSUM_BIAS == 2    \* the 2 of line 48
HEAD == 170           \* "\xaa", lines 49 and 69
CMD_ID == 180         \* "\xb4", line 49
FILL == 255           \* "\xff", line 51
TAIL == 171           \* "\xab", line 51
BODY_LEN == 9         \* ser.read(size=9), line 71
DATA_TAG == 192       \* "\xc0", line 84
N_QUERIES == 15       \* range(15), line 140

-----------------------------------------------------------------------------
(* Bounds of the model.                                                    *)

MaxDataLen == 13      \* longest data argument tried
MaxJunk == 2          \* most stray chunks sent while one read_response call waits
MaxCalls == 3         \* most construct_command calls made in a row

-----------------------------------------------------------------------------
(* construct_command, lines 45-55.                                         *)

RECURSIVE sum(_)
sum(s) == IF s = <<>> THEN 0 ELSE Head(s) + sum(Tail(s))

Zeros(n) == [i \in 1..n |-> 0]

\* line 47: data += [0,] * (12-len(data)); a list times a negative count is [].
PadLeft(data) ==
    (IF PAYLOAD_LEN - Len(data) > 0 THEN Zeros(PAYLOAD_LEN - Len(data)) ELSE <<>>)
        \o data

Pad(data) ==
    data \o (IF PAYLOAD_LEN - Len(data) > 0 THEN Zeros(PAYLOAD_LEN - Len(data))
             ELSE <<>>)

\* line 48: Python's % takes the sign of the divisor, as TLA+'s does.
ChecksumModFirst(cmd, data) == ((sum(data) + cmd) % BYTE_MOD) - CHECKSUM_BIAS

Checksum(cmd, data) == (sum(data) + cmd - CHECKSUM_BIAS) % BYTE_MOD

\* lines 49-51.
Serialize(cmd, data) ==
    <<HEAD, CMD_ID, cmd>> \o data \o <<FILL, FILL, Checksum(cmd, data), TAIL>>

\* The whole call: the result, and the list object data after line 47 (the
\* += extends the caller's list in place).  construct_command_in_place is
\* the call with the tail of line 51 appended to that same list.
\* exc is the exception raised ("None": the call returned ret).
construct_command_in_place(cmd, data) ==
    IF Len(data) <= PAYLOAD_LEN
    THEN [exc |-> None, ret |-> Serialize(cmd, Pad(data)),
          data |-> Pad(data) \o <<FILL, FILL, Checksum(cmd, Pad(data)), TAIL>>]
    ELSE [exc |-> "AssertionError", ret |-> <<>>, data |-> data]

construct_command_unchecked(cmd, data) ==
    [exc |-> None, ret |-> Serialize(cmd, Pad(data)), data |-> Pad(data)]

construct_command(cmd, data) ==
    IF Len(data) <= PAYLOAD_LEN
    THEN [exc |-> None, ret |-> Serialize(cmd, Pad(data)), data |-> Pad(data)]
    ELSE [exc |-> "AssertionError", ret |-> <<>>, data |-> data]

-----------------------------------------------------------------------------
(* The serial port, lines 36-40 and 70-71.  ser is opened with pyserial's   *)
(* default timeout (None): read(size) waits until size bytes have arrived   *)
(* and returns them, or raises SerialException.                            *)

Take(s, n) == SubSeq(s, 1, n)
Drop(s, n) == SubSeq(s, n + 1, Len(s))
Min(a, b) == IF a <= b THEN a ELSE b

\* A read that gives what has arrived so far, as with a zero timeout.
ser_read_nowait(buf, size) ==
    [ready |-> TRUE,
     data |-> Take(buf, Min(size, Len(buf))),
     rest |-> Drop(buf, Min(size, Len(buf)))]

ser_read(buf, size) ==
    [ready |-> Len(buf) >= size,
     data |-> Take(buf, Min(size, Len(buf))),
     rest |-> Drop(buf, Min(size, Len(buf)))]

-----------------------------------------------------------------------------
(* read_response, lines 67-74.                                             *)

\* line 69, tried on the first byte read whatever it is.
keep_reading_first(b) == b = <<>>

\* line 69 with a condition no byte ends.
keep_reading_always(b) == TRUE

\* line 69: while byte != "\xaa".
keep_reading(b) == b # <<HEAD>>

\* line 74: return byte + d.
read_response_ret(b, body) == b \o body

\* A SerialException inside read_response, swallowed: what was read is returned.
on_read_error_partial(b, partial) ==
    [exc |-> None, ret |-> b \o partial]

\* A SerialException raised by ser.read at line 70 or 71: no handler, neither
\* in read_response nor in any cmd_* function nor in __main__.
on_read_error(b, partial) ==
    [exc |-> "SerialException", ret |-> <<>>]

-----------------------------------------------------------------------------
(* process_data and cmd_query_data, lines 57-61 and 83-86.                 *)

\* struct's "<H": little-endian unsigned 16 bits.
u16le(lo, hi) == lo + BYTE_MOD * hi
u16be(hi, lo) == lo + BYTE_MOD * hi

\* raw/10.0, as integer part and tenths digit.
tenths(raw) == <<raw \div 10, raw % 10>>

\* line 58 reading "<HH" big-endian.
process_data_be(f) ==
    <<tenths(u16be(f[3], f[4])), tenths(u16be(f[5], f[6]))>>

\* lines 58-61: struct.unpack('<HHxxBB', d[2:]) on the 8 bytes after the tag.
process_data(f) ==
    <<tenths(u16le(f[3], f[4])), tenths(u16le(f[5], f[6]))>>

\* lines 83-86 testing the byte after the tag.
query_values_wrong_byte(f) ==
    IF f[3] = DATA_TAG THEN process_data(f) ELSE <<>>

\* lines 83-86: values = []; if d[1] == "\xc0": values = process_data(d).
query_values(f) ==
    IF f[2] = DATA_TAG THEN process_data(f) ELSE <<>>

-----------------------------------------------------------------------------
(* process_version, lines 63-65.                                           *)

\* line 64 unpacking from the byte after the tag.
process_version_from_tag(f) ==
    <<f[3], f[4], f[5], u16le(f[6], f[7]), f[8], f[9]>>

\* line 64: r = struct.unpack('<BBBHBB', d[3:]), the 7 bytes from d[3] on;
\* the first three of r are the year, the month and the day.
process_version(f) ==
    <<f[4], f[5], f[6], u16le(f[7], f[8]), f[9], f[10]>>

-----------------------------------------------------------------------------
(* The arguments each cmd_* function gives construct_command.              *)

NoCall == [state |-> "pending", exc |-> None, ret |-> <<>>]

Explicit(c, data) == [cmd |-> c, given |-> TRUE, data |-> data]
Defaulted(c) == [cmd |-> c, given |-> FALSE, data |-> <<>>]

cmd_set_mode(mode) == Explicit(CMD_MODE, <<1, mode>>)                \* line 77
cmd_query_data == Defaulted(CMD_QUERY_DATA)                          \* line 81

\* line 89 with the two modes exchanged.
cmd_set_sleep_inverted(sleep) ==
    Explicit(CMD_SLEEP, <<1, IF sleep # 0 THEN 1 ELSE 0>>)

cmd_set_sleep(sleep) == Explicit(CMD_SLEEP, <<1, IF sleep # 0 THEN 0 ELSE 1>>)
cmd_set_working_period(period) == Explicit(CMD_WORKING_PERIOD, <<1, period>>)
cmd_firmware_ver == Defaulted(CMD_FIRMWARE)                          \* line 98

\* lines 103-105 with id_h before id_l.
cmd_set_id_high_first(i) ==
    Explicit(CMD_DEVICE_ID, Zeros(10) \o <<(i \div BYTE_MOD) % BYTE_MOD, i % BYTE_MOD>>)

\* lines 103-105: id_h = (id>>8) % 256, id_l = id % 256, [0]*10+[id_l, id_h].
cmd_set_id(i) ==
    Explicit(CMD_DEVICE_ID, Zeros(10) \o <<i % BYTE_MOD, (i \div BYTE_MOD) % BYTE_MOD>>)

\* The command called by each statement of __main__, lines 130-162, and by a
\* caller of cmd_set_id ("set_id": __main__ has no such call).
MainCall(p) ==
    CASE p = "init_sleep" -> cmd_set_sleep(0)
      [] p = "init_fw" -> cmd_firmware_ver
      [] p = "init_period" -> cmd_set_working_period(PERIOD_CONTINUOUS)
      [] p = "init_mode" -> cmd_set_mode(MODE_QUERY)
      [] p = "wake" -> cmd_set_sleep(0)
      [] p = "query" -> cmd_query_data
      [] p = "sleep" -> cmd_set_sleep(1)
      [] p = "set_id" -> cmd_set_id(id)

CallPcs == {"init_sleep", "init_fw", "init_period", "init_mode", "wake",
            "query", "sleep", "set_id"}

\* The statement after each call that only discards the frame it read.
AfterCall(p) ==
    CASE p = "init_sleep" -> "init_fw"
      [] p = "init_fw" -> "init_period"
      [] p = "init_period" -> "init_mode"
      [] p = "init_mode" -> "wake"
      [] p = "wake" -> "query"
      [] p = "sleep" -> "delay"
      [] p = "set_id" -> "done"

\* The statement a command goes to after its ser.write: read_response
\* (after_write_no_read: back to the write, the response left unread).
after_write_no_read == "call"

after_write == "marker"                    \* lines 78, 82, 91, 95, 99, 106

\* lines 142-143 without the test: values = v.
keep_sample_overwrite(old, new) == new

\* lines 142-143: if v and len(v) == 2: values = v.
keep_sample(old, new) == IF new # <<>> /\ Len(new) = 2 THEN new ELSE old

-----------------------------------------------------------------------------
(* The sensor: what arrives on the serial input.                           *)

GARBAGE == <<90>>                                        \* 5A
STRAY_MARKER == <<HEAD>>                                 \* AA alone
DATA_FRAME == <<HEAD, DATA_TAG, 64, 1, 116, 0, 5, 151, 81, TAIL>>
BAD_SUM_FRAME == <<HEAD, DATA_TAG, 1, 0, 2, 0, 0, 0, 255, TAIL>>
REPLY_FRAME == <<HEAD, 197, 6, 1, 1, 0, 5, 151, 164, TAIL>>

JunkChunks == {GARBAGE, STRAY_MARKER}
FrameChunks == {DATA_FRAME, BAD_SUM_FRAME, REPLY_FRAME}

Reading == cmd_pc \in {"marker", "body"}
Running == exc = None

\* The read under way has fewer unread bytes than it asks for.  The program
\* sees the order of the bytes and never when they arrived (its reads block,
\* it never polls), so the sensor's bytes are delivered when a read waits.
Starved ==
    \/ cmd_pc = "marker" /\ Len(stream) < 1
    \/ cmd_pc = "body" /\ Len(stream) < BODY_LEN

SensorSendsJunk ==
    /\ Running /\ Starved
    /\ junk < MaxJunk
    /\ \E c \in JunkChunks :
         /\ stream' = stream \o c
         /\ rr_seen' = rr_seen \o c
    /\ junk' = junk + 1
    /\ UNCHANGED <<ccvars, progvars, fault, histvars>>

SensorSendsFrame ==
    /\ Running /\ Starved
    /\ \E c \in FrameChunks :
         /\ stream' = stream \o c
         /\ rr_seen' = rr_seen \o c
    /\ UNCHANGED <<ccvars, progvars, junk, fault, histvars>>

-----------------------------------------------------------------------------
(* The program.                                                            *)

Line(text, args) == [line |-> text, args |-> args]

NothingOut == [file |-> FALSE, mqtt |-> FALSE]

\* The CMD_SLEEP frame last written, read off the frames: payload [1, 1]
\* wakes the sensor, payload [1, 0] puts it to sleep.
SleepCmdAfter(frame, before) ==
    IF frame[3] # CMD_SLEEP THEN before
    ELSE IF frame[5] = 1 THEN "wake" ELSE "sleep"

\* An exception nothing catches: the interpreter prints the traceback on
\* standard error and exits.
Crash(e, f) ==
    /\ exc' = e
    /\ fault' = f
    /\ pc' = "crashed"
    /\ cmd_pc' = "call"
    /\ byte' = <<>>
    /\ d' = <<>>
    /\ stream' = <<>>
    /\ rr_seen' = <<>>
    /\ junk' = 0
    /\ outstanding' = 0
    /\ UNCHANGED <<id, printed, last_sleep_cmd, round_last, round_out>>

\* Lines 111-117 and 129: the connection succeeds or its exception is caught;
\* either way a line is printed and __main__ goes on.
MqttConnect ==
    /\ Running /\ pc = "connect"
    /\ \E ok \in BOOLEAN :
         printed' = Line(IF ok THEN "Connected to MQTT broker:"
                         ELSE "MQTT connection failed:", <<>>)
    /\ pc' = "init_sleep"
    /\ UNCHANGED <<ccvars, cmd_pc, id, t, byte, d, v, values, jsonfile, mqtt_msg,
                   exc, written, servars, histvars>>

\* Lines 77, 81, 90, 94, 98, 105: ser.write(construct_command(...)), then the
\* entry of read_response (line 68).
CmdWrite ==
    /\ Running /\ pc \in CallPcs /\ cmd_pc = "call"
    /\ LET a == MainCall(pc)
           r == construct_command(a.cmd, IF a.given THEN a.data ELSE cc_default)
       IN /\ cc_default' = IF a.given THEN cc_default ELSE r.data
          /\ IF r.exc = None
             THEN /\ written' = r.ret
                  /\ cmd_pc' = after_write
                  /\ byte' = <<>>
                  /\ rr_seen' = stream
                  /\ outstanding' = outstanding + 1
                  /\ last_sleep_cmd' = SleepCmdAfter(r.ret, last_sleep_cmd)
                  /\ UNCHANGED <<pc, id, d, printed, exc, stream, fault, round_last,
                                 round_out>>
             ELSE Crash(r.exc, "none") /\ UNCHANGED written
    /\ junk' = 0
    /\ UNCHANGED <<cc_in, cc_out, cc_n, cc_nd, t, v, values, jsonfile, mqtt_msg>>

\* ser.write raises SerialException.
WriteFails ==
    /\ Running /\ pc \in CallPcs /\ cmd_pc = "call"
    /\ Crash("SerialException", "write")
    /\ UNCHANGED <<ccvars, t, v, values, jsonfile, mqtt_msg, written>>

\* Lines 69-70: one turn of the loop.
ReadMarker ==
    /\ Running /\ cmd_pc = "marker"
    /\ LET r == ser_read(stream, 1)
       IN /\ r.ready
          /\ byte' = r.data
          /\ stream' = r.rest
          /\ cmd_pc' = IF keep_reading(r.data) THEN "marker" ELSE "body"
    /\ UNCHANGED <<ccvars, pc, id, t, d, v, values, jsonfile, mqtt_msg, printed, exc,
                   written, rr_seen, junk, fault, histvars>>

\* Lines 71-74: the body, and the return to the command.
ReadBody ==
    /\ Running /\ cmd_pc = "body"
    /\ LET r == ser_read(stream, BODY_LEN)
       IN /\ r.ready
          /\ d' = read_response_ret(byte, r.data)
          /\ stream' = r.rest
    /\ byte' = <<>>
    /\ cmd_pc' = "ret"
    /\ junk' = 0
    /\ outstanding' = outstanding - 1
    /\ UNCHANGED <<ccvars, pc, id, t, v, values, jsonfile, mqtt_msg, printed, exc,
                   written, rr_seen, fault, last_sleep_cmd, round_last, round_out>>

\* ser.read raises SerialException at line 70 or 71.
ReadFails ==
    /\ Running /\ Reading
    /\ LET part == IF cmd_pc = "body"
                   THEN Take(stream, Min(Len(stream), BODY_LEN - 1)) ELSE <<>>
           r == on_read_error(byte, part)
       IN IF r.exc # None
          THEN Crash(r.exc, "read")
          ELSE /\ d' = r.ret
               /\ stream' = Drop(stream, Len(part))
               /\ byte' = <<>>
               /\ cmd_pc' = "ret"
               /\ junk' = 0
               /\ fault' = "read"
               /\ outstanding' = outstanding - 1
               /\ UNCHANGED <<pc, id, printed, exc, rr_seen, last_sleep_cmd,
                              round_last, round_out>>
    /\ UNCHANGED <<ccvars, t, v, values, jsonfile, mqtt_msg, written>>

\* Lines 78, 91, 95, 106: read_response's frame is dropped unread and the
\* command returns; after the wake of line 136, line 137 and the start of
\* the for loop.
PlainReturn ==
    /\ Running /\ cmd_pc = "ret" /\ pc \in CallPcs \ {"query", "init_fw"}
    /\ pc' = AfterCall(pc)
    /\ cmd_pc' = "call"
    /\ d' = <<>>
    /\ rr_seen' = <<>>
    /\ values' = IF pc = "wake" THEN <<>> ELSE values
    /\ t' = IF pc = "wake" THEN 0 ELSE t
    /\ round_last' = IF pc = "wake" THEN <<>> ELSE round_last
    /\ round_out' = IF pc = "wake" THEN NothingOut ELSE round_out
    /\ UNCHANGED <<ccvars, id, byte, v, jsonfile, mqtt_msg, printed, exc, written,
                   stream, junk, fault, outstanding, last_sleep_cmd>>

\* Lines 99-100 and 64-65: cmd_firmware_ver gives the frame to
\* process_version, which prints what it unpacked.
FirmwareReturn ==
    /\ Running /\ cmd_pc = "ret" /\ pc = "init_fw"
    /\ printed' = Line("Firmware:", process_version(d))
    /\ pc' = AfterCall(pc)
    /\ cmd_pc' = "call"
    /\ d' = <<>>
    /\ rr_seen' = <<>>
    /\ UNCHANGED <<ccvars, id, t, byte, v, values, jsonfile, mqtt_msg, exc, written,
                   stream, junk, fault, histvars>>

\* Lines 83-86 and 141-145: cmd_query_data returns, the loop keeps the sample
\* and prints it.
QueryReturn ==
    /\ Running /\ cmd_pc = "ret" /\ pc = "query"
    /\ v' = query_values(d)
    /\ values' = keep_sample(values, v')
    /\ printed' = IF v' # <<>> /\ Len(v') = 2 THEN Line("PM2.5:", values')
                  ELSE printed
    /\ round_last' = IF v' # <<>> THEN v' ELSE round_last
    /\ t' = t + 1
    /\ pc' = IF t + 1 < N_QUERIES THEN "query" ELSE "publish"
    /\ cmd_pc' = "call"
    /\ d' = <<>>
    /\ rr_seen' = <<>>
    /\ UNCHANGED <<ccvars, id, byte, jsonfile, mqtt_msg, exc, written, stream, junk,
                   fault, outstanding, last_sleep_cmd, round_out>>

\* Lines 147-161 and 119-123: the row is built from values, dumped to
\* JSON_FILE and given to client.publish (whose result code is only
\* printed); then line 161.  The file and the MQTT client are taken to
\* accept what they are given.
Publish ==
    /\ Running /\ pc = "publish"
    /\ jsonfile' = IF values # <<>> THEN values ELSE jsonfile
    /\ mqtt_msg' = IF values # <<>> THEN values ELSE mqtt_msg
    /\ round_out' = [file |-> values # <<>>, mqtt |-> values # <<>>]
    /\ printed' = Line("Going to sleep for 1 min...", <<>>)
    /\ pc' = "sleep"
    /\ UNCHANGED <<ccvars, cmd_pc, id, t, byte, d, v, values, exc, written, servars,
                   outstanding, last_sleep_cmd, round_last>>

\* Line 163.
Delay ==
    /\ Running /\ pc = "delay"
    /\ pc' = "wake"
    /\ UNCHANGED <<ccvars, cmd_pc, id, t, byte, d, v, values, jsonfile, mqtt_msg,
                   printed, exc, written, servars, histvars>>

\* Before line 129: nothing printed, written or read yet.
ProgInit ==
    /\ pc = "connect"
    /\ cmd_pc = "call"
    /\ id = 0
    /\ t = 0
    /\ byte = <<>>
    /\ d = <<>>
    /\ v = <<>>
    /\ values = <<>>
    /\ jsonfile = <<>>
    /\ mqtt_msg = <<>>
    /\ printed = Line("", <<>>)
    /\ exc = None
    /\ written = <<>>
    /\ stream = <<>>
    /\ rr_seen = <<>>
    /\ junk = 0
    /\ fault = "none"
    /\ outstanding = 0
    /\ last_sleep_cmd = "none"
    /\ round_last = <<>>
    /\ round_out = NothingOut

Init ==
    /\ ProgInit
    /\ cc_in = Defaulted(CMD_QUERY_DATA)
    /\ cc_out = NoCall
    /\ cc_default = <<>>
    /\ cc_n = 0
    /\ cc_nd = 0

Next ==
    \/ MqttConnect
    \/ CmdWrite
    \/ WriteFails
    \/ ReadMarker
    \/ ReadBody
    \/ ReadFails
    \/ PlainReturn
    \/ FirmwareReturn
    \/ QueryReturn
    \/ Publish
    \/ Delay
    \/ SensorSendsJunk
    \/ SensorSendsFrame

Spec == Init /\ [][Next]_vars

\* The program is one thread that runs whenever its next statement can: a
\* blocked read is the only thing that holds it.  Nothing is assumed of the
\* sensor or of the faults of the serial line.
ProgramStep ==
    MqttConnect \/ CmdWrite \/ ReadMarker \/ ReadBody \/ PlainReturn
        \/ FirmwareReturn \/ QueryReturn \/ Publish \/ Delay

FairSpec == Spec /\ WF_vars(ProgramStep)

-----------------------------------------------------------------------------
(* cmd_query_data and cmd_firmware_ver on sampled frames: the program at    *)
(* line 83 or at line 100, read_response having returned d.                *)

TagSamples == {DATA_TAG, 197, 0, HEAD, 193}
PmByteSamples == {0, 1, 64, 116, 255}
RestSamples == {<<5, 151, 81, TAIL>>, <<0, 0, 0, 0>>, <<255, 255, 255, 255>>}

FrameSamples ==
    { <<HEAD, tag, a, b, c, e>> \o r :
        tag \in TagSamples, a \in PmByteSamples, b \in PmByteSamples,
        c \in PmByteSamples, e \in PmByteSamples, r \in RestSamples }

InitDecode ==
    /\ cc_in = Defaulted(CMD_QUERY_DATA)
    /\ cc_out = NoCall
    /\ cc_default = Zeros(PAYLOAD_LEN)
    /\ cc_n = 0
    /\ cc_nd = 0
    /\ pc \in {"query", "init_fw"}
    /\ cmd_pc = "ret"
    /\ id = 0
    /\ t = 0
    /\ byte = <<>>
    /\ d \in FrameSamples
    /\ v = <<>>
    /\ values = <<>>
    /\ jsonfile = <<>>
    /\ mqtt_msg = <<>>
    /\ printed = Line("Connected to MQTT broker:", <<>>)
    /\ exc = None
    /\ written = construct_command(MainCall(pc).cmd, Zeros(PAYLOAD_LEN)).ret
    /\ stream = <<>>
    /\ rr_seen = d
    /\ junk = 0
    /\ fault = "none"
    /\ outstanding = 0
    /\ last_sleep_cmd = "wake"
    /\ round_last = <<>>
    /\ round_out = NothingOut

NextDecode == QueryReturn \/ FirmwareReturn

SpecDecode == InitDecode /\ [][NextDecode]_vars

-----------------------------------------------------------------------------
(* cmd_set_id called with every 16-bit id, the sensor answering with its    *)
(* frames.                                                                 *)

InitSetId ==
    /\ cc_in = Defaulted(CMD_QUERY_DATA)
    /\ cc_out = NoCall
    /\ cc_default = <<>>
    /\ cc_n = 0
    /\ cc_nd = 0
    /\ pc = "set_id"
    /\ cmd_pc = "call"
    /\ id \in 0..(BYTE_MOD * BYTE_MOD - 1)
    /\ t = 0
    /\ byte = <<>>
    /\ d = <<>>
    /\ v = <<>>
    /\ values = <<>>
    /\ jsonfile = <<>>
    /\ mqtt_msg = <<>>
    /\ printed = Line("", <<>>)
    /\ exc = None
    /\ written = <<>>
    /\ stream = <<>>
    /\ rr_seen = <<>>
    /\ junk = 0
    /\ fault = "none"
    /\ outstanding = 0
    /\ last_sleep_cmd = "none"
    /\ round_last = <<>>
    /\ round_out = NothingOut

NextSetId == CmdWrite \/ SensorSendsFrame \/ ReadMarker \/ ReadBody \/ PlainReturn

SpecSetId == InitSetId /\ [][NextSetId]_vars

-----------------------------------------------------------------------------
(* Calls of construct_command on sampled arguments.                        *)

ByteSamples == {0, 1, 255}
CmdSamples == {0, 1, CMD_MODE, CMD_QUERY_DATA, CMD_DEVICE_ID, 255}

\* a^k b^(n-k), for every length up to MaxDataLen.
DataSamples ==
    UNION { { [i \in 1..n |-> IF i <= k THEN a ELSE b] :
                k \in 0..n, a \in ByteSamples, b \in ByteSamples } :
            n \in 0..MaxDataLen }

\* The arguments at the call sites of lines 77, 81, 90, 94, 98 and 105;
\* given = FALSE is a call that passes no data.
CallSiteArgs ==
    { [cmd |-> CMD_MODE, given |-> TRUE, data |-> <<1, MODE_QUERY>>],
      [cmd |-> CMD_QUERY_DATA, given |-> FALSE, data |-> <<>>],
      [cmd |-> CMD_SLEEP, given |-> TRUE, data |-> <<1, 0>>],
      [cmd |-> CMD_SLEEP, given |-> TRUE, data |-> <<1, 1>>],
      [cmd |-> CMD_WORKING_PERIOD, given |-> TRUE, data |-> <<1, PERIOD_CONTINUOUS>>],
      [cmd |-> CMD_FIRMWARE, given |-> FALSE, data |-> <<>>],
      [cmd |-> CMD_DEVICE_ID, given |-> TRUE, data |-> Zeros(10) \o <<1, 255>>] }

CallArgs ==
    [cmd : CmdSamples, given : {TRUE}, data : DataSamples] \cup CallSiteArgs

InitCmd ==
    /\ cc_in \in CallArgs
    /\ cc_out = NoCall
    /\ cc_default = <<>>
    /\ cc_n = 0
    /\ cc_nd = 0
    /\ ProgInit

\* One call: the default list is the argument when none is passed, and is
\* then the list line 47 extends.
ConstructCall ==
    /\ cc_out.state = "pending"
    /\ LET arg == IF cc_in.given THEN cc_in.data ELSE cc_default
           r == construct_command(cc_in.cmd, arg)
       IN /\ cc_out' = [state |-> IF r.exc = None THEN "returned" ELSE "raised",
                        exc |-> r.exc, ret |-> r.ret]
          /\ cc_default' = IF cc_in.given THEN cc_default ELSE r.data
    /\ cc_n' = cc_n + 1
    /\ cc_nd' = IF cc_in.given THEN cc_nd ELSE cc_nd + 1
    /\ UNCHANGED <<cc_in, progvars, servars, histvars>>

\* The caller goes on to its next call.
NextCall ==
    /\ cc_out.state # "pending"
    /\ cc_n < MaxCalls
    /\ cc_in' \in CallSiteArgs
    /\ cc_out' = NoCall
    /\ UNCHANGED <<cc_default, cc_n, cc_nd, progvars, servars, histvars>>

NextCmd == ConstructCall \/ NextCall

SpecCmd == InitCmd /\ [][NextCmd]_vars

-----------------------------------------------------------------------------
(* Claims about construct_command, checked under SpecCmd.                  *)

Returned == cc_out.state = "returned"
Raised == cc_out.state = "raised"
Called == cc_out.state # "pending"

\* The sum of the 12 payload bytes of a frame, read off the frame itself.
PayloadSum(f) ==
    f[4] + f[5] + f[6] + f[7] + f[8] + f[9] + f[10] + f[11] + f[12] + f[13]
        + f[14] + f[15]

\* C1: a call with a command byte and at most 12 data bytes returns exactly
\* 19 bytes: 0xAA, 0xB4, the command, the data followed by zeros up to 12
\* bytes, 0xFF, 0xFF, the checksum byte, 0xAB.
C1_FrameLayout ==
    (Called /\ cc_in.given /\ Len(cc_in.data) <= 12) =>
        /\ Returned
        /\ Len(cc_out.ret) = 19
        /\ cc_out.ret[1] = 170
        /\ cc_out.ret[2] = 180
        /\ cc_out.ret[3] = cc_in.cmd
        /\ \A i \in 1..12 :
             cc_out.ret[3 + i] = IF i <= Len(cc_in.data) THEN cc_in.data[i] ELSE 0
        /\ cc_out.ret[16] = 255
        /\ cc_out.ret[17] = 255
        /\ cc_out.ret[18] \in 0..255
        /\ cc_out.ret[19] = 171

C1_Witness ==
    /\ Returned /\ cc_in.given
    /\ Len(cc_in.data) = 5
    /\ cc_in.data[1] = 255 /\ cc_in.data[5] = 1
    /\ cc_out.ret[8] = 1 /\ cc_out.ret[9] = 0

\* C2: the checksum byte of a returned frame is in 0..255 and congruent to
\* (sum of the 12 payload bytes + command - 2) modulo 256; it is 254 or 255
\* when sum + command < 2, and 2 for CMD_MODE with data [1, 1].
C2_Checksum ==
    Returned =>
        LET f == cc_out.ret
            raw == PayloadSum(f) + f[3] - 2
        IN /\ f[18] \in 0..255
           /\ \E k \in -1..15 : f[18] = raw - 256 * k
           /\ (raw < 0) => f[18] \in {254, 255}
           /\ (cc_in.given /\ cc_in.cmd = 2 /\ cc_in.data = <<1, 1>>) => f[18] = 2

C2_Witness ==
    /\ Returned
    /\ cc_in.cmd = 0
    /\ PayloadSum(cc_out.ret) = 0
    /\ cc_out.ret[18] = 254

\* C3: a call with more than 12 data bytes fails (AssertionError, the
\* program's invalid-argument error) and returns no frame.
C3_TooLongFails ==
    (Called /\ cc_in.given /\ Len(cc_in.data) > 12) =>
        /\ Raised
        /\ cc_out.exc = "AssertionError"
        /\ cc_out.ret = <<>>

C3_Witness ==
    /\ Raised
    /\ cc_in.given
    /\ Len(cc_in.data) = 13

-----------------------------------------------------------------------------
(* Claims about read_response, checked under Spec.                         *)

ReadReturned == Running /\ cmd_pc = "ret"

\* C4: read_response returns the 10 bytes that start at the first 0xAA of
\* the input offered to it, having discarded what came before that byte,
\* and leaves unread everything after those 10 bytes.
C4_FrameAtFirstMarker ==
    ReadReturned =>
        \E k \in 0..Len(rr_seen) :
            /\ k + 10 <= Len(rr_seen)
            /\ \A i \in 1..k : rr_seen[i] # 170
            /\ rr_seen[k + 1] = 170
            /\ d = SubSeq(rr_seen, k + 1, k + 10)
            /\ stream = SubSeq(rr_seen, k + 11, Len(rr_seen))

C4_Witness ==
    /\ ReadReturned
    /\ Len(rr_seen) = 12
    /\ rr_seen[1] = 90 /\ rr_seen[2] = 170 /\ rr_seen[3] = 170
    /\ d[2] = 170 /\ d[3] = 192
    /\ stream = <<171>>

\* C5: whatever read_response returns, after any earlier commands and
\* reads, is exactly 10 bytes long and starts with 0xAA.
C5_TenBytesFromMarker ==
    /\ ReadReturned => d # <<>>
    /\ d # <<>> => (Len(d) = 10 /\ d[1] = 170)

C5_Witness ==
    /\ ReadReturned
    /\ pc = "sleep"
    /\ jsonfile # <<>>
    /\ Len(d) = 10 /\ d[1] = 170 /\ d[2] = 90

\* C6: a read_response call that waits for bytes which do not come does not
\* wait for ever: it ends, with a failure if no byte arrives.
C6_StarvedReadEnds == Starved ~> ~Starved

\* C7: when a serial read fails inside read_response, the SerialException
\* ends the command and the program at once; no frame is returned, nothing
\* is decoded from the bytes read so far, and nothing happens afterwards.
C7_ReadErrorPropagates ==
    [][ /\ (fault = "none" /\ fault' = "read") =>
             /\ Reading
             /\ exc' = "SerialException"
             /\ pc' = "crashed"
             /\ d' = <<>>
             /\ <<v, values, jsonfile, mqtt_msg, written>>'
                  = <<v, values, jsonfile, mqtt_msg, written>>
        /\ fault = "read" => UNCHANGED vars ]_vars

C7_Witness ==
    /\ fault = "read"
    /\ exc = "SerialException"
    /\ pc = "crashed"
    /\ d = <<>>
    /\ written[3] = 4
    /\ values # <<>>

-----------------------------------------------------------------------------
(* Claims about cmd_query_data and process_data.                           *)

QueryReturns == Running /\ pc = "query" /\ cmd_pc = "ret"

\* The checksum of a response frame: the low byte of the sum of its six data
\* bytes, carried in the byte before the tail.
ResponseSumOk(f) == f[9] = (f[3] + f[4] + f[5] + f[6] + f[7] + f[8]) % 256

\* C8: cmd_query_data returns a sample exactly when the byte after the 0xAA
\* marker is 0xC0; for any other tag it returns the empty result, and no
\* error is raised.
C8_SampleIffDataTag ==
    [][ QueryReturns =>
          /\ (v' # <<>>) <=> (d[2] = 192)
          /\ d[2] = 192 => Len(v') = 2
          /\ exc' = None /\ pc' # "crashed" ]_vars

C8_Witness ==
    /\ Running /\ pc = "query" /\ cmd_pc = "call" /\ t = 1
    /\ v = <<>>

\* C9: a frame with tag 0xC0 whose checksum byte does not match its data
\* bytes gives no sample, and no error.
C9_BadChecksumNoSample ==
    [][ (QueryReturns /\ d[2] = 192 /\ ~ResponseSumOk(d)) =>
          (v' = <<>> /\ values' = values /\ exc' = None) ]_vars

\* C10: for a frame with tag 0xC0 the sample is (raw25/10, raw10/10), raw25
\* the little-endian 16-bit value of the two bytes after the tag and raw10
\* that of the next two; the last four bytes play no part.  Bytes 40 01 74 00
\* give 32.0 and 11.6.
C10_LittleEndianTenths ==
    [][ (QueryReturns /\ d[2] = 192) =>
          /\ Len(v') = 2
          /\ v'[1][2] \in 0..9 /\ v'[2][2] \in 0..9
          /\ 10 * v'[1][1] + v'[1][2] = d[3] + 256 * d[4]
          /\ 10 * v'[2][1] + v'[2][2] = d[5] + 256 * d[6]
          /\ (<<d[3], d[4], d[5], d[6]>> = <<64, 1, 116, 0>>) =>
                v' = << <<32, 0>>, <<11, 6>> >> ]_vars

C10_Witness ==
    /\ Running /\ pc = "query" /\ cmd_pc = "call" /\ t = 1
    /\ v = << <<32, 0>>, <<11, 6>> >>

-----------------------------------------------------------------------------
(* Claims about the commands and the sampling loop.                        *)

\* C11: a command other than query_data whose response frame does not carry
\* the tag of its reply (0xC5) ends in a failure given to its caller, not in
\* a normal return.
C11_BadTagFailsCommand ==
    [][ (Running /\ cmd_pc = "ret" /\ pc \in CallPcs \ {"query"} /\ d[2] # 197) =>
          exc' # None ]_vars

\* C12: command frames written and response frames read alternate, the
\* write first: at most one written frame is unanswered, the port is read
\* exactly while one is, and nothing is read before the first write.
C12_WriteThenRead ==
    /\ outstanding \in {0, 1}
    /\ (outstanding = 1) <=> (Running /\ Reading)
    /\ cmd_pc = "call" => outstanding = 0
    /\ written = <<>> => (d = <<>> /\ ~Reading /\ stream = <<>>)

C12_Witness ==
    /\ Running /\ pc = "query" /\ t = 14 /\ cmd_pc = "body"
    /\ outstanding = 1

\* C13 as stated: the year, month and day of the firmware response are the
\* three bytes from body offset 1 on, body offset 0 being the tag after the
\* 0xAA marker.
C13_VersionFromBodyOffset1 ==
    [][ (Running /\ pc = "init_fw" /\ cmd_pc = "ret") =>
          /\ printed'.line = "Firmware:"
          /\ <<printed'.args[1], printed'.args[2], printed'.args[3]>> =
                <<d[3], d[4], d[5]>> ]_vars

\* C13 amended: the year, month and day of the firmware response are the
\* three bytes from body offset 2 on (body offset 0 being the tag after the
\* 0xAA marker, body offset 1 the command id 7); they are followed by the
\* little-endian 16-bit device id and the last two bytes of the frame.
C13_VersionFromBodyOffset2 ==
    [][ (Running /\ pc = "init_fw" /\ cmd_pc = "ret") =>
          /\ printed'.line = "Firmware:"
          /\ <<printed'.args[1], printed'.args[2], printed'.args[3]>> =
                <<d[4], d[5], d[6]>>
          /\ printed'.args[4] = d[7] + 256 * d[8]
          /\ <<printed'.args[5], printed'.args[6]>> = <<d[9], d[10]>> ]_vars

C13_Witness ==
    /\ Running /\ pc = "init_period"
    /\ printed = Line("Firmware:", <<1, 64, 116, 38661, 81, 171>>)

\* C14: for every id in 0..65535 the frame cmd_set_id writes is a
\* CMD_DEVICE_ID frame whose payload is ten zero bytes, then id mod 256, then
\* (id div 256) mod 256: two bytes in 0..255 with low + 256 * high = id.
C14_SetIdPayload ==
    written # <<>> =>
      /\ Len(written) = 19
      /\ <<written[1], written[2], written[3]>> = <<170, 180, 5>>
      /\ \A i \in 4..13 : written[i] = 0
      /\ written[14] = id % 256
      /\ written[15] = (id \div 256) % 256
      /\ written[14] \in 0..255 /\ written[15] \in 0..255
      /\ written[14] + 256 * written[15] = id

C14_Witness ==
    /\ pc = "done" /\ id = 4660
    /\ <<written[14], written[15]>> = <<52, 18>>

\* C15: an I/O error of a serial read or write does not end the program: the
\* sampling loop goes on.
C15_TransportFailureKeepsLooping ==
    fault \in {"read", "write"} => (Running /\ pc # "crashed")

WriteStep == outstanding' = outstanding + 1

\* C17: a query frame is written only when the last CMD_SLEEP frame written
\* was a wake frame (payload [1, 1]); each round writes the wake frame before
\* its first query and the sleep frame (payload [1, 0]) after its last; after
\* a sleep frame the next frame written is a wake frame.
C17_QueriesOnlyAwake ==
    [][ /\ (WriteStep /\ written'[3] = 4) => last_sleep_cmd = "wake"
        /\ (WriteStep /\ pc \in {"init_sleep", "wake"}) =>
              <<written'[3], written'[4], written'[5]>> = <<6, 1, 1>>
        /\ (WriteStep /\ pc = "sleep") =>
              <<written'[3], written'[4], written'[5]>> = <<6, 1, 0>>
        /\ (WriteStep /\ last_sleep_cmd = "sleep") =>
              <<written'[3], written'[4], written'[5]>> = <<6, 1, 1>>
        /\ (pc = "wake" /\ pc' = "query") => last_sleep_cmd = "wake"
        /\ (pc = "sleep" /\ pc' = "delay") => last_sleep_cmd = "sleep" ]_vars

C17_Witness ==
    /\ Running /\ pc = "wake" /\ cmd_pc = "marker"
    /\ last_sleep_cmd = "wake" /\ jsonfile # <<>>
    /\ <<written[3], written[4], written[5]>> = <<6, 1, 1>>

\* C18: what construct_command returns depends on the cmd and data of that
\* call alone: after any calls, a call that passes no data returns the frame
\* with 12 zero payload bytes, so every query-data frame is AA B4 04, twelve 00,
\* FF FF 02 AB.
C18_DefaultPayloadStaysZero ==
    /\ (Called /\ ~cc_in.given) =>
         /\ Returned
         /\ cc_out.ret = <<170, 180, cc_in.cmd>> \o Zeros(12)
                            \o <<255, 255, (cc_in.cmd - 2) % 256, 171>>
    /\ (Called /\ cc_in = Defaulted(CMD_QUERY_DATA)) =>
         cc_out.ret = <<170, 180, 4, 0, 0, 0, 0, 0, 0, 0, 0, 0, 0, 0, 0,
                        255, 255, 2, 171>>
    /\ (Called /\ cc_in \in CallSiteArgs /\ cc_in.given) =>
         /\ Returned
         /\ cc_out.ret = <<170, 180, cc_in.cmd>> \o cc_in.data
                            \o Zeros(12 - Len(cc_in.data))
                            \o <<255, 255, (sum(cc_in.data) + cc_in.cmd - 2) % 256, 171>>

C18_Witness ==
    /\ Returned /\ cc_in = Defaulted(CMD_QUERY_DATA)
    /\ cc_n = 3 /\ cc_nd = 3

\* An unread 0xAA with at least 9 bytes after it.
FrameInStream ==
    \E i \in 1..Len(stream) : stream[i] = 170 /\ Len(stream) >= i + 9

\* C19: when the unread input holds a 0xAA followed by at least 9 more bytes
\* and the reads keep succeeding, read_response returns; and it never
\* returns when no 0xAA was in the input offered to it, whatever it read.
C19_ReturnsIffMarker ==
    /\ (Running /\ cmd_pc = "marker" /\ FrameInStream) ~>
          (ReadReturned \/ fault = "read")
    /\ [](ReadReturned => \E i \in 1..Len(rr_seen) : rr_seen[i] = 170)

C19_Witness ==
    /\ ReadReturned
    /\ Len(rr_seen) >= 12
    /\ <<rr_seen[1], rr_seen[2], rr_seen[3]>> = <<90, 90, 170>>

=============================================================================
